---- MODULE Spec2Model ----
(***************************************************************************)
(* Model of the Automated Call Center: the phone-number loop of the Sql     *)
(* Agent and, further down, the client components that call the backend    *)
(* (the two QueryProcessors, CallControls and Layout).                     *)
(*                                                                         *)
(* get_patient_phoneNumber (Sql Agent/functions), recovered from its       *)
(* CPython 3.13 byte code:                                                 *)
(*                                                                         *)
(*   def get_patient_phoneNumber() -> str:                                 *)
(*       while True:                                                       *)
(*           user_input = input("Agent: Please tell ...: ").strip()        *)
(*           if not user_input:                                            *)
(*               print("Agent: Input cannot be empty. ...")                *)
(*               continue                                                  *)
(*           phone_extracted = create_prompt(TEMPLATE, user_input).strip() *)
(*           if phone_extracted == "Invalid" or not re.fullmatch(          *)
(*                   r"(\+92\d{10}|03\d{9})", phone_extracted):            *)
(*               print("Agent: Not a valid phone number. ...")             *)
(*               continue                                                  *)
(*           return phone_extracted                                        *)
(*                                                                         *)
(* The code object has an empty exception table: nothing raised inside the *)
(* loop is caught.                                                         *)
(*                                                                         *)
(* Strings are sequences of one-character strings.                         *)
(***************************************************************************)
EXTENDS Integers, Sequences, FiniteSets, TLC

VARIABLES
    pc,              \* position of the loop: Prompting, Extracting, Validating,
                     \* Rejected, Accepted (returned) or Raised (left by exception)
    rawInput,        \* the line input() returned in this cycle, before .strip()
    user_input,      \* local user_input
    request,         \* the create_prompt call in flight, if any
    candidate,       \* what create_prompt returned in this cycle, before .strip()
    phone_extracted, \* local phone_extracted
    validatorArg,    \* the string re.fullmatch was called on in this cycle, if any
    notice,          \* what the last step printed
    returned,        \* the function's return value, once it has returned
    rejected,        \* number of rejected cycles so far (saturates at MaxRejected)
    vs,              \* ValidatorSpec: the string under test
    verdict,         \* ValidatorSpec: the Validator's answer on vs
    inst,            \* TwoLoopsSpec: the locals of two calls of the function
    aq,              \* QueryProcessor.jsx (axios): component state and requests
    fq,              \* QueryProcessor (fetch): component state and request
    cc               \* Layout and CallControls: state, refs, pending callbacks

vars == <<pc, rawInput, user_input, request, candidate, phone_extracted,
          validatorArg, notice, returned, rejected, vs, verdict, inst, aq, fq, cc>>

\* what the phone-number loop and the Validator leave alone
clientVars == <<inst, aq, fq, cc>>

loopVars == <<pc, rawInput, user_input, request, candidate, phone_extracted,
              validatorArg, notice, returned, rejected>>

-----------------------------------------------------------------------------
(* Bounds *)

\* the rejected-cycle counter saturates here (the loop itself is unbounded)
MaxRejected == 3

\* longest digit run of the Validator's test strings
MaxRun == 11

\* requests of one QueryProcessor awaiting their result at one time
MaxInFlight == 2

\* speech recognitions of the QueryProcessor alive at one time
MaxRecognitions == 1

\* Start clicks on the record button in one run
MaxRecordings == 2

\* times the assistant page is shown in one run
MaxMounts == 2

-----------------------------------------------------------------------------
(* Characters *)

\* U+0663 ARABIC-INDIC DIGIT THREE: a decimal digit (category Nd) outside ASCII
ArabicThree == "U+0663"

AsciiDigits == {"0", "1", "2", "3", "4", "5", "6", "7", "8", "9"}

\* str.isspace(): the characters str.strip() removes
WhiteSpace == {" ", "\t"}

\* what \d matches in a str pattern: any Unicode decimal digit
IsDecimalDigit(c) == c \in AsciiDigits \cup {ArabicThree}

IsSpace(c) == c \in WhiteSpace

\* no value: an unbound local, or nothing returned yet
None == <<"None">>

-----------------------------------------------------------------------------
(* str.strip() *)

RECURSIVE LStrip(_)
LStrip(s) == IF s # <<>> /\ IsSpace(Head(s)) THEN LStrip(Tail(s)) ELSE s

RECURSIVE RStrip(_)
RStrip(s) ==
    IF s # <<>> /\ IsSpace(s[Len(s)]) THEN RStrip(SubSeq(s, 1, Len(s) - 1)) ELSE s

\* a buggy variant: removes every whitespace character, not only the surrounding ones
StripAll(s) == SelectSeq(s, LAMBDA c : ~IsSpace(c))

Strip(s) == RStrip(LStrip(s))

-----------------------------------------------------------------------------
(* The grammar: r"(\+92\d{10}|03\d{9})" *)

LocalDigits == 9
IntlDigits == 10

Lit(c) == [kind |-> "lit", ch |-> c, n |-> 1]
Digit(k) == [kind |-> "digit", ch |-> "", n |-> k]

\* the pattern as its alternatives, each a sequence of atoms
PhonePattern ==
    << <<Lit("+"), Lit("9"), Lit("2"), Digit(IntlDigits)>>,
       <<Lit("0"), Lit("3"), Digit(LocalDigits)>> >>

AtomMatches(a, c) == IF a.kind = "lit" THEN c = a.ch ELSE IsDecimalDigit(c)

\* an alternative unrolled to one atom per character
RECURSIVE Unroll(_)
Unroll(alt) ==
    IF alt = <<>> THEN <<>>
    ELSE [i \in 1..Head(alt).n |-> Head(alt)] \o Unroll(Tail(alt))

\* re.match: the pattern matches a prefix of s
PrefixMatch(pattern, s) ==
    \E k \in DOMAIN pattern :
        LET u == Unroll(pattern[k]) IN
            /\ Len(s) >= Len(u)
            /\ \A i \in 1..Len(u) : AtomMatches(u[i], s[i])

\* re.fullmatch: the pattern matches all of s
FullMatch(pattern, s) ==
    \E k \in DOMAIN pattern :
        LET u == Unroll(pattern[k]) IN
            /\ Len(s) = Len(u)
            /\ \A i \in 1..Len(u) : AtomMatches(u[i], s[i])

\* a buggy variant: the pattern without its international alternative
ValidatorLocalOnly(s) == FullMatch(<<PhonePattern[2]>>, s)

\* the Validator of the loop
Validator(s) == FullMatch(PhonePattern, s)

-----------------------------------------------------------------------------
(* Literals of the function *)

Invalid == <<"I", "n", "v", "a", "l", "i", "d">>

\* the examples the notices and the extraction template quote
ExampleLocal == <<"0", "3", "2", "0", "7", "6", "7", "3", "0", "7", "8">>
ExampleIntl == <<"+", "9", "2", "3", "2", "0", "7", "3", "7", "3", "8", "7", "8">>

NoNotice == [kind |-> "none", examples |-> {}]
\* a buggy variant: a blank line is answered with the format notice
BlankGetsFormatNotice ==
    [kind |-> "format", examples |-> {ExampleLocal, ExampleIntl}]
EmptyNotice == [kind |-> "empty", examples |-> {}]
\* a buggy variant of the format notice: the international example lost
FormatNoticeLocalOnly == [kind |-> "format", examples |-> {ExampleLocal}]
FormatNotice == [kind |-> "format", examples |-> {ExampleLocal, ExampleIntl}]

ExtractTemplate == "Extract only the phone number from the given input. ..."
NoRequest == [template |-> "", input |-> None]

-----------------------------------------------------------------------------
(* The operator and the extraction service *)

SpacedIntl ==
    <<"+", "9", "2", " ", "3", "2", "0", " ", "7", "3", "7", " ", "3", "8", "7", "8">>
OtherLocal == <<"0", "3", "0", "0", "1", "2", "3", "4", "5", "6", "7">>
ShortLocal == <<"0", "3", "2", "0", "7", "6", "7", "3", "0", "7">>

\* lines the operator may type
RawInputs ==
    { <<>>, <<" ">>, <<"\t", " ">>, <<"h", "i">>,
      ExampleLocal, <<" ">> \o ExampleLocal \o <<" ">>, SpacedIntl }

\* strings the extraction service may answer with, whatever it was asked
ServiceAnswers ==
    { Invalid, <<" ">> \o Invalid, <<>>, <<" ">>,
      ExampleLocal, ExampleIntl, OtherLocal, ShortLocal, SpacedIntl,
      <<" ">> \o ExampleLocal \o <<"\t">>, ExampleLocal \o <<"x">> }

\* create_prompt(template, input): an external language-model call. It returns
\* a string that is advisory only (one of ServiceAnswers, or its input echoed)
\* or it fails
CreatePromptReturns(template, input) == ServiceAnswers \cup {input}

-----------------------------------------------------------------------------
(* Initial state of the other components *)

\* JavaScript null / undefined
Null == "null"

\* the locals of one call of get_patient_phoneNumber, at its start
LoopStart ==
    [ pc |-> "Prompting", rawInput |-> None, user_input |-> None,
      request |-> NoRequest, candidate |-> None, phone_extracted |-> None,
      validatorArg |-> None, notice |-> NoNotice, returned |-> None ]

Instances == {1, 2}

InstStart == [i \in Instances |-> LoopStart]

\* QueryProcessor.jsx: useState("") / (null) / (null) / (false) / (false)
\* inflight: the axios.post calls awaiting their result, each the query it
\* carries; recognitions: the webkitSpeechRecognition objects that can still
\* fire a handler, each with the query its click's render closed over;
\* lastQuery / shownFor / ev: the query last sent, the query whose outcome is
\* displayed, the handler that ran last
AqStart ==
    [ query |-> <<>>, response |-> Null, agent |-> Null,
      isProcessing |-> FALSE, isListening |-> FALSE,
      inflight |-> <<>>, recognitions |-> <<>>,
      lastQuery |-> None, shownFor |-> None, ev |-> "mount" ]

\* QueryProcessor (fetch): useState('') / ('') / (false) / (null) /
\* ('inactive') / (null)
\* inflight: the fetch calls awaiting their result, each the body it carries;
\* lastOk: agent and status of the latest response handled without error;
\* ev: the handler that ran last
NoOk == [agent |-> Null, status |-> "none"]

FqStart ==
    [ query |-> <<>>, response |-> "", loading |-> FALSE, error |-> Null,
      queryStatus |-> "inactive", currentAgent |-> Null,
      inflight |-> <<>>, lastOk |-> NoOk, ev |-> "mount" ]

\* Layout: useState([]) / (null) / (false) / ('assistant')
\* CallControls: useState('') / (false) / (null) / (null), useRef(null) /
\* ([]) / (null); recorderRef is an index into the recorders, 0 for null
CallControlsStart ==
    [ transcription |-> "", isProcessing |-> FALSE, error |-> Null,
      sessionId |-> Null, sessionIdRef |-> Null,
      recorderRef |-> 0, chunks |-> <<>> ]

\* comps: the CallControls instances mounted so far, the last one being the
\* one on screen while the assistant page is shown; gum: the getUserMedia
\* calls awaiting the user's answer; recorders: the MediaRecorders created
\* (data: whether its dataavailable event carried audio);
\* uploads: the fetch calls to /api/process-audio awaiting their result, each
\* with the recorder whose onstop sent it, its blob and its session_id;
\* started: Start clicks so far; ev, evOf: the handler that ran last and the
\* instance it belongs to; lastSid: the session_id a result returned last;
\* got: the result handled last
CcStart ==
    [ transcript |-> <<>>, activeAgent |-> Null, isRecording |-> FALSE,
      activePage |-> "assistant",
      comps |-> <<CallControlsStart>>, gum |-> <<>>, recorders |-> <<>>,
      uploads |-> <<>>, started |-> 0, ev |-> "mount", evOf |-> 1,
      lastSid |-> Null,
      got |-> [session_id |-> "", transcription |-> "", response |-> "", agent_type |-> ""] ]

ClientIdle ==
    /\ inst = InstStart
    /\ aq = AqStart
    /\ fq = FqStart
    /\ cc = CcStart

-----------------------------------------------------------------------------
(* The loop *)

\* a buggy variant: a blank line is not detected
NeverEmpty(u) == FALSE

\* `if not user_input`
IsEmptyInput(u) == u = <<>>

\* a buggy variant: the sentinel is not short-circuited
NeverSentinel(p) == FALSE

\* `phone_extracted == "Invalid"`
IsSentinel(p) == p = Invalid

\* a buggy variant: the operator's text is returned
ReturnUserInput(u, p) == u

\* `return phone_extracted`
ReturnValue(u, p) == p

\* the notice of a rejected cycle
RejectNotice == FormatNotice

Inc(n) == IF n < MaxRejected THEN n + 1 ELSE n

Init ==
    /\ pc = "Prompting"
    /\ rawInput = None
    /\ user_input = None
    /\ request = NoRequest
    /\ candidate = None
    /\ phone_extracted = None
    /\ validatorArg = None
    /\ notice = NoNotice
    /\ returned = None
    /\ rejected = 0
    /\ vs = None
    /\ verdict = "unset"
    /\ ClientIdle

\* a buggy variant: the operator's lines accumulate from cycle to cycle
PromptAccumulating(raw) ==
    /\ pc = "Prompting"
    /\ rawInput' = raw
    /\ user_input' = Strip((IF user_input = None THEN <<>> ELSE user_input) \o raw)
    /\ candidate' = None
    /\ validatorArg' = None
    /\ IF IsEmptyInput(user_input')
       THEN /\ notice' = EmptyNotice
            /\ request' = NoRequest
            /\ pc' = "Prompting"
       ELSE /\ notice' = NoNotice
            /\ request' = [template |-> ExtractTemplate, input |-> user_input']
            /\ pc' = "Extracting"
    /\ UNCHANGED <<phone_extracted, returned, rejected, vs, verdict, clientVars>>

\* a buggy variant: the create_prompt call is issued and not awaited
PromptNotAwaiting(raw) ==
    /\ pc = "Prompting"
    /\ rawInput' = raw
    /\ user_input' = Strip(raw)
    /\ candidate' = None
    /\ validatorArg' = None
    /\ IF IsEmptyInput(user_input')
       THEN /\ notice' = EmptyNotice
            /\ request' = NoRequest
       ELSE /\ notice' = NoNotice
            /\ request' = [template |-> ExtractTemplate, input |-> user_input']
    /\ pc' = "Prompting"
    /\ UNCHANGED <<phone_extracted, returned, rejected, vs, verdict, clientVars>>

\* user_input = input(...).strip(); if not user_input: print(...); continue;
\* otherwise the create_prompt call is issued
Prompt(raw) ==
    /\ pc = "Prompting"
    /\ rawInput' = raw
    /\ user_input' = Strip(raw)
    /\ candidate' = None
    /\ validatorArg' = None
    /\ IF IsEmptyInput(user_input')
       THEN /\ notice' = EmptyNotice
            /\ request' = NoRequest
            /\ pc' = "Prompting"
       ELSE /\ notice' = NoNotice
            /\ request' = [template |-> ExtractTemplate, input |-> user_input']
            /\ pc' = "Extracting"
    /\ UNCHANGED <<phone_extracted, returned, rejected, vs, verdict, clientVars>>

\* create_prompt returns c: phone_extracted = c.strip()
ExtractReturn(c) ==
    /\ pc = "Extracting"
    /\ c \in CreatePromptReturns(request.template, request.input)
    /\ candidate' = c
    /\ phone_extracted' = Strip(c)
    /\ request' = NoRequest
    /\ notice' = NoNotice
    /\ pc' = "Validating"
    /\ UNCHANGED <<rawInput, user_input, validatorArg, returned, rejected, vs, verdict, clientVars>>

\* create_prompt raises: no handler, the exception leaves the function
ExtractRaise ==
    /\ pc = "Extracting"
    /\ request' = NoRequest
    /\ notice' = NoNotice
    /\ pc' = "Raised"
    /\ UNCHANGED <<rawInput, user_input, candidate, phone_extracted, validatorArg,
                   returned, rejected, vs, verdict, clientVars>>

\* a buggy variant: the extraction service's answer is trusted
ValidateTrusting ==
    /\ pc = "Validating"
    /\ validatorArg' = None
    /\ notice' = NoNotice
    /\ IF IsSentinel(phone_extracted)
       THEN pc' = "Rejected" /\ returned' = None
       ELSE pc' = "Accepted" /\ returned' = ReturnValue(user_input, phone_extracted)
    /\ UNCHANGED <<rawInput, user_input, request, candidate, phone_extracted,
                   rejected, vs, verdict, clientVars>>

\* a buggy variant: the service's answer is returned as it was received
ValidateReturningCandidate ==
    /\ pc = "Validating"
    /\ notice' = NoNotice
    /\ IF IsSentinel(phone_extracted)
       THEN /\ validatorArg' = None
            /\ pc' = "Rejected"
            /\ returned' = None
       ELSE /\ validatorArg' = phone_extracted
            /\ IF Validator(phone_extracted)
               THEN /\ pc' = "Accepted"
                    /\ returned' = candidate
               ELSE /\ pc' = "Rejected"
                    /\ returned' = None
    /\ UNCHANGED <<rawInput, user_input, request, candidate, phone_extracted,
                   rejected, vs, verdict, clientVars>>

\* if phone_extracted == "Invalid" or not re.fullmatch(...): reject;
\* else return phone_extracted
Validate ==
    /\ pc = "Validating"
    /\ notice' = NoNotice
    /\ IF IsSentinel(phone_extracted)
       THEN /\ validatorArg' = None
            /\ pc' = "Rejected"
            /\ returned' = None
       ELSE /\ validatorArg' = phone_extracted
            /\ IF Validator(phone_extracted)
               THEN /\ pc' = "Accepted"
                    /\ returned' = ReturnValue(user_input, phone_extracted)
               ELSE /\ pc' = "Rejected"
                    /\ returned' = None
    /\ UNCHANGED <<rawInput, user_input, request, candidate, phone_extracted,
                   rejected, vs, verdict, clientVars>>

\* a buggy variant: the loop gives up after two rejected cycles
RejectBounded ==
    /\ pc = "Rejected"
    /\ notice' = RejectNotice
    /\ rejected' = Inc(rejected)
    /\ pc' = IF rejected' >= 2 THEN "Abandoned" ELSE "Prompting"
    /\ UNCHANGED <<rawInput, user_input, request, candidate, phone_extracted,
                   validatorArg, returned, vs, verdict, clientVars>>

\* print("Agent: Not a valid phone number. ..."); continue
Reject ==
    /\ pc = "Rejected"
    /\ notice' = RejectNotice
    /\ rejected' = Inc(rejected)
    /\ pc' = "Prompting"
    /\ UNCHANGED <<rawInput, user_input, request, candidate, phone_extracted,
                   validatorArg, returned, vs, verdict, clientVars>>

Next ==
    \/ \E raw \in RawInputs : Prompt(raw)
    \/ \E c \in ServiceAnswers \cup RawInputs : ExtractReturn(c)
    \/ ExtractRaise
    \/ Validate
    \/ Reject

Spec == Init /\ [][Next]_vars

-----------------------------------------------------------------------------
(* The Validator alone, on strings built around the two forms *)

TestPrefixes ==
    { <<"0", "3">>, <<"+", "9", "2">>, <<"0", "4">>, <<"+", "9", "1">>,
      <<"9", "2">>, <<"3">>, <<>> }

TestFill == {"7", "0", ArabicThree}

TestOdd == {"a", " ", "+"}

TestAffix == { <<>>, <<" ">>, <<"x">>, <<"0">> }

Run(n, d) == [i \in 1..n |-> d]

\* a run of n characters d, and the same with one character replaced
TestRuns ==
    UNION { { Run(n, d) } \cup
            { [Run(n, d) EXCEPT ![p] = o] : p \in {1, n}, o \in TestOdd }
          : n \in (LocalDigits - 1)..MaxRun, d \in TestFill }

TestStrings ==
    { lead \o pre \o run \o trail :
        lead \in TestAffix, pre \in TestPrefixes, run \in TestRuns, trail \in TestAffix }
    \cup ServiceAnswers \cup RawInputs

InitV ==
    /\ pc = "Idle"
    /\ rawInput = None
    /\ user_input = None
    /\ request = NoRequest
    /\ candidate = None
    /\ phone_extracted = None
    /\ validatorArg = None
    /\ notice = NoNotice
    /\ returned = None
    /\ rejected = 0
    /\ vs \in TestStrings
    /\ verdict = "unset"
    /\ ClientIdle

\* one call of the Validator
RunValidator ==
    /\ verdict = "unset"
    /\ verdict' = IF Validator(vs) THEN "Valid" ELSE "Invalid"
    /\ UNCHANGED <<vs, loopVars, clientVars>>

NextV == RunValidator

ValidatorSpec == InitV /\ [][NextV]_vars

-----------------------------------------------------------------------------
(* The phone grammar, stated without the pattern *)

LocalForm(s) ==
    /\ Len(s) = 11
    /\ s[1] = "0" /\ s[2] = "3"
    /\ \A i \in 3..11 : IsDecimalDigit(s[i])

IntlForm(s) ==
    /\ Len(s) = 13
    /\ s[1] = "+" /\ s[2] = "9" /\ s[3] = "2"
    /\ \A i \in 4..13 : IsDecimalDigit(s[i])

PhoneGrammar(s) == LocalForm(s) \/ IntlForm(s)

IsBlank(s) == \A i \in DOMAIN s : IsSpace(s[i])

HasWhitespace(s) == \E i \in DOMAIN s : IsSpace(s[i])

\* whitespace with other characters on both sides
HasEmbeddedWhitespace(s) ==
    \E j \in DOMAIN s :
        /\ IsSpace(s[j])
        /\ \E i \in 1..(j - 1) : ~IsSpace(s[i])
        /\ \E k \in (j + 1)..Len(s) : ~IsSpace(s[k])

\* r is c without whitespace at its two ends
IsTrimOf(r, c) ==
    /\ r # <<>>
    /\ ~IsSpace(r[1]) /\ ~IsSpace(r[Len(r)])
    /\ \E i \in 0..Len(c) :
        /\ i + Len(r) <= Len(c)
        /\ r = SubSeq(c, i + 1, i + Len(r))
        /\ IsBlank(SubSeq(c, 1, i))
        /\ IsBlank(SubSeq(c, i + Len(r) + 1, Len(c)))

-----------------------------------------------------------------------------
(* Claims *)

\* C1: whatever the loop returns matches the phone grammar and is the very
\* string the Validator was called on in the cycle that returned it.
C1_ReturnedIsValidated ==
    returned # None =>
        /\ pc = "Accepted"
        /\ PhoneGrammar(returned)
        /\ validatorArg = returned

C1_Witness ==
    pc = "Accepted" /\ returned = ExampleIntl /\ validatorArg = ExampleIntl

\* C2: the Validator accepts a string exactly when it is 03 and 9 decimal
\* digits, or +92 and 10 decimal digits, and nothing else.
C2_ValidatorIffGrammar ==
    verdict # "unset" => (verdict = "Valid" <=> PhoneGrammar(vs))

\* a local number with one digit too many has been rejected
C2_Witness ==
    /\ verdict = "Invalid"
    /\ Len(vs) = 12
    /\ LocalForm(SubSeq(vs, 1, 11))
    /\ IsDecimalDigit(vs[12])

\* C3 as written: on the sentinel or an empty Candidate the cycle is Rejected
\* and the Validator is not invoked.
C3_SentinelOrEmptySkipsValidator ==
    [][ (pc = "Validating" /\ (candidate = Invalid \/ candidate = <<>>))
            => (pc' = "Rejected" /\ validatorArg' = None) ]_vars

\* C3 amended: the sentinel is Rejected without the Validator being invoked;
\* an empty Candidate is Rejected by the Validator; neither is ever Accepted.
C3_SentinelSkipsValidatorEmptyRejected ==
    [][ pc = "Validating" =>
            /\ candidate = Invalid => (pc' = "Rejected" /\ validatorArg' = None)
            /\ candidate = <<>> => (pc' = "Rejected" /\ validatorArg' = <<>>) ]_vars

C3_Witness ==
    pc = "Rejected" /\ candidate = Invalid /\ validatorArg = None

\* C4: in a cycle whose RawInput is empty or whitespace-only no extraction
\* request is issued and no Candidate is received.
C4_NoExtractionOnBlank ==
    IsBlank(rawInput) =>
        /\ pc = "Prompting"
        /\ request = NoRequest
        /\ candidate = None

C4_Witness ==
    /\ rawInput = <<"\t", " ">>
    /\ notice = EmptyNotice
    /\ pc = "Prompting"
    /\ request = NoRequest

LoopTransitions ==
    { <<"Prompting", "Prompting">>, <<"Prompting", "Extracting">>,
      <<"Extracting", "Validating">>, <<"Validating", "Accepted">>,
      <<"Validating", "Rejected">>, <<"Rejected", "Prompting">> }

\* C5: every step of the loop is one of Prompting->Prompting,
\* Prompting->Extracting, Extracting->Validating, Validating->Accepted,
\* Validating->Rejected, Rejected->Prompting.
C5_OnlyListedTransitions ==
    [][ (<<pc, pc'>> \in LoopTransitions) ]_vars

\* C6: a cycle whose Candidate is not the sentinel and matches the grammar ends
\* in Accepted with exactly that Candidate returned, after any number of
\* rejected cycles; nothing happens after Accepted and nothing is returned
\* before it.
C6_FirstValidCandidateAccepted ==
    /\ [][ (pc = "Validating" /\ candidate # Invalid /\ PhoneGrammar(candidate))
               => (pc' = "Accepted" /\ returned' = candidate) ]_vars
    /\ [][ pc # "Accepted" ]_vars
    /\ [](pc # "Accepted" => returned = None)

C6_Witness ==
    /\ pc = "Accepted"
    /\ rejected = MaxRejected
    /\ returned = candidate
    /\ IntlForm(candidate)

\* C7: a Rejected cycle, whatever caused it, prints the format notice with an
\* example of each form and goes back to Prompting.
C7_RejectedNoticeThenPrompting ==
    [][ pc = "Rejected" =>
            /\ pc' = "Prompting"
            /\ notice'.kind = "format"
            /\ \E e \in notice'.examples : LocalForm(e)
            /\ \E e \in notice'.examples : IntlForm(e) ]_vars

\* the notice after a cycle rejected on the sentinel
C7_Witness ==
    /\ pc = "Prompting"
    /\ notice.kind = "format"
    /\ candidate = Invalid
    /\ validatorArg = None

\* C8 as written: the value returned is the Candidate the extraction service
\* produced in the accepting cycle.
C8_ReturnedIsCandidate ==
    pc = "Accepted" => returned = candidate

\* C8 amended: the value returned is the Candidate of the accepting cycle
\* without its surrounding whitespace, never the operator's RawInput.
C8_ReturnedIsTrimmedCandidate ==
    /\ pc = "Accepted" => IsTrimOf(returned, candidate)
    /\ returned # None => pc = "Accepted"

\* the operator typed a valid number and the service's (other) number came back
C8_Witness ==
    /\ pc = "Accepted"
    /\ PhoneGrammar(rawInput)
    /\ returned # rawInput

\* C9 as written: a Candidate containing any whitespace ends its cycle Rejected.
C9_AnyWhitespaceRejected ==
    [][ (pc = "Validating" /\ HasWhitespace(candidate)) => pc' = "Rejected" ]_vars

\* C9 amended: only surrounding whitespace is stripped before validation; a
\* Candidate with embedded whitespace ends its cycle Rejected and is never
\* returned, and what is returned is the Candidate less surrounding whitespace.
C9_EmbeddedWhitespaceRejected ==
    /\ [][ (pc = "Validating" /\ HasEmbeddedWhitespace(candidate))
               => (pc' = "Rejected" /\ returned' = None) ]_vars
    /\ [](pc = "Accepted" => (~HasWhitespace(returned) /\ IsTrimOf(returned, candidate)))

C9_Witness ==
    pc = "Rejected" /\ candidate = SpacedIntl /\ validatorArg = SpacedIntl

\* C10: in every state but Accepted the loop can take a step; a failure of the
\* extraction service does not end it.
C10_NoFatalError ==
    pc # "Accepted" => ENABLED Next


\* C11: the loop has no retry bound: whatever the number of rejected cycles, a
\* rejected cycle goes back to Prompting and Prompting accepts another line;
\* nothing but a valid Candidate (or an uncaught exception) ends the loop.
C11_NoRetryBound ==
    /\ [][ pc = "Rejected" => (pc' = "Prompting" /\ returned' = None) ]_vars
    /\ [](pc = "Prompting" => ENABLED (\E raw \in RawInputs : Prompt(raw)))
    /\ [](pc \in {"Prompting", "Extracting", "Validating", "Rejected", "Accepted", "Raised"})

\* as many rejected cycles as the counter can count, and the loop still prompts
C11_Witness ==
    /\ pc = "Prompting"
    /\ rejected = MaxRejected
    /\ returned = None
    /\ notice = FormatNotice

\* C12: a blank RawInput yields the "cannot be empty" notice and leaves the
\* loop in Prompting; it is not a rejected cycle and gets no format notice.
C12_BlankInputRepromptsWithoutRejection ==
    [][ (pc = "Prompting" /\ IsBlank(rawInput')) =>
            /\ pc' = "Prompting"
            /\ notice'.kind = "empty"
            /\ notice'.examples = {}
            /\ rejected' = rejected ]_vars

C12_Witness ==
    /\ rawInput = <<" ">>
    /\ notice.kind = "empty"
    /\ pc = "Prompting"
    /\ rejected = 1

\* the values a Candidate c can be accepted with: c less its surrounding
\* whitespace, when that matches the grammar
AcceptableValues(c) ==
    { r \in { SubSeq(c, i, j) : i \in 1..Len(c), j \in 1..Len(c) } :
        PhoneGrammar(r) /\ IsTrimOf(r, c) }

\* C13: the outcome of a cycle is a function of that cycle's RawInput and
\* Candidate alone: a blank line re-prompts, another line is sent for
\* extraction as typed (less surrounding whitespace), and the Candidate alone
\* decides between Rejected and Accepted and fixes the value returned.
C13_OutcomeDependsOnCurrentCycleOnly ==
    /\ [][ pc = "Prompting" =>
              IF IsBlank(rawInput')
              THEN pc' = "Prompting" /\ request' = NoRequest
              ELSE pc' = "Extracting" /\ IsTrimOf(request'.input, rawInput') ]_vars
    /\ [][ pc = "Validating" =>
              IF AcceptableValues(candidate) = {}
              THEN pc' = "Rejected" /\ returned' = None
              ELSE pc' = "Accepted" /\ returned' \in AcceptableValues(candidate) ]_vars
    /\ [][ pc = "Rejected" => (pc' = "Prompting" /\ notice' = FormatNotice) ]_vars

\* a line sent for extraction after earlier rejected cycles
C13_Witness ==
    /\ pc = "Extracting"
    /\ rejected = 2
    /\ phone_extracted = ShortLocal
    /\ request.input = ExampleLocal

\* C14: cycles do not overlap: a create_prompt call is outstanding exactly
\* while the loop is in Extracting, a call is issued only when none is
\* outstanding, and the loop prompts only after its previous cycle has ended.
C14_CyclesDoNotOverlap ==
    /\ [](request # NoRequest <=> pc = "Extracting")
    /\ [][ (request' # NoRequest /\ request = NoRequest) => pc = "Prompting" ]_vars
    /\ [][ pc' = "Prompting" => pc \in {"Prompting", "Rejected"} ]_vars

C14_Witness ==
    /\ pc = "Extracting"
    /\ request = [template |-> ExtractTemplate, input |-> SpacedIntl]
    /\ candidate = None
    /\ rejected > 0

\* C16: running the Validator again on a value the loop returned accepts it.
C16_ReturnedRevalidates ==
    returned # None => Validator(returned)

\* returned after the service's answer came with surrounding whitespace
C16_Witness ==
    /\ pc = "Accepted"
    /\ returned = ExampleLocal
    /\ candidate = <<" ">> \o ExampleLocal \o <<"\t">>

-----------------------------------------------------------------------------
(* Two calls of get_patient_phoneNumber, interleaved. Everything the function
   writes is a local (STORE_FAST user_input, phone_extracted): each call has
   its own copy. *)

\* the loop and the Validator at rest, for the specifications of the other
\* components
LoopIdle ==
    /\ pc = "Idle"
    /\ rawInput = None
    /\ user_input = None
    /\ request = NoRequest
    /\ candidate = None
    /\ phone_extracted = None
    /\ validatorArg = None
    /\ notice = NoNotice
    /\ returned = None
    /\ rejected = 0
    /\ vs = None
    /\ verdict = "unset"

\* the steps of the loop as functions of one call's locals
PromptOf(st, raw) ==
    LET u == Strip(raw) IN
    IF IsEmptyInput(u)
    THEN [st EXCEPT !.rawInput = raw, !.user_input = u, !.candidate = None,
                    !.validatorArg = None, !.notice = EmptyNotice,
                    !.request = NoRequest, !.pc = "Prompting"]
    ELSE [st EXCEPT !.rawInput = raw, !.user_input = u, !.candidate = None,
                    !.validatorArg = None, !.notice = NoNotice,
                    !.request = [template |-> ExtractTemplate, input |-> u],
                    !.pc = "Extracting"]

ExtractReturnOf(st, c) ==
    [st EXCEPT !.candidate = c, !.phone_extracted = Strip(c),
               !.request = NoRequest, !.notice = NoNotice, !.pc = "Validating"]

ExtractRaiseOf(st) ==
    [st EXCEPT !.request = NoRequest, !.notice = NoNotice, !.pc = "Raised"]

ValidateOf(st) ==
    IF IsSentinel(st.phone_extracted)
    THEN [st EXCEPT !.notice = NoNotice, !.validatorArg = None,
                    !.pc = "Rejected", !.returned = None]
    ELSE IF Validator(st.phone_extracted)
    THEN [st EXCEPT !.notice = NoNotice, !.validatorArg = st.phone_extracted,
                    !.pc = "Accepted",
                    !.returned = ReturnValue(st.user_input, st.phone_extracted)]
    ELSE [st EXCEPT !.notice = NoNotice, !.validatorArg = st.phone_extracted,
                    !.pc = "Rejected", !.returned = None]

RejectOf(st) == [st EXCEPT !.notice = RejectNotice, !.pc = "Prompting"]

\* every state one step of a call running alone leads to from st
StepsAlone(st, raws, answers) ==
    CASE st.pc = "Prompting" -> { PromptOf(st, raw) : raw \in raws }
      [] st.pc = "Extracting" ->
            { ExtractReturnOf(st, c) : c \in answers \cup {st.request.input} }
            \cup { ExtractRaiseOf(st) }
      [] st.pc = "Validating" -> { ValidateOf(st) }
      [] st.pc = "Rejected" -> { RejectOf(st) }
      [] OTHER -> {}

\* the locals of the loop of Spec, as one record
LoopRecord ==
    [ pc |-> pc, rawInput |-> rawInput, user_input |-> user_input,
      request |-> request, candidate |-> candidate,
      phone_extracted |-> phone_extracted, validatorArg |-> validatorArg,
      notice |-> notice, returned |-> returned ]

\* the steps on records are the steps of the loop of Spec
LoopStepsAgree ==
    [][ LoopRecord' \in StepsAlone(LoopRecord, RawInputs, ServiceAnswers \cup RawInputs)
            \cup {LoopRecord} ]_vars

TwoRawInputs == { <<>>, <<"h", "i">>, ExampleLocal }

TwoAnswers == { Invalid, ShortLocal, ExampleLocal, <<" ">> \o ExampleLocal \o <<"\t">> }

IdleInit ==
    /\ LoopIdle
    /\ ClientIdle

InstPrompt(i, raw) ==
    /\ inst[i].pc = "Prompting"
    /\ inst' = [inst EXCEPT ![i] = PromptOf(inst[i], raw)]
    /\ UNCHANGED <<vs, verdict, loopVars, aq, fq, cc>>

\* a buggy variant: phone_extracted is a module-level global, shared by the calls
InstExtractReturnShared(i, c) ==
    /\ inst[i].pc = "Extracting"
    /\ inst' = [j \in Instances |->
                  IF j = i THEN ExtractReturnOf(inst[i], c)
                  ELSE [inst[j] EXCEPT !.phone_extracted = Strip(c)]]
    /\ UNCHANGED <<vs, verdict, loopVars, aq, fq, cc>>

InstExtractReturn(i, c) ==
    /\ inst[i].pc = "Extracting"
    /\ inst' = [inst EXCEPT ![i] = ExtractReturnOf(inst[i], c)]
    /\ UNCHANGED <<vs, verdict, loopVars, aq, fq, cc>>

InstExtractRaise(i) ==
    /\ inst[i].pc = "Extracting"
    /\ inst' = [inst EXCEPT ![i] = ExtractRaiseOf(inst[i])]
    /\ UNCHANGED <<vs, verdict, loopVars, aq, fq, cc>>

InstValidate(i) ==
    /\ inst[i].pc = "Validating"
    /\ inst' = [inst EXCEPT ![i] = ValidateOf(inst[i])]
    /\ UNCHANGED <<vs, verdict, loopVars, aq, fq, cc>>

InstReject(i) ==
    /\ inst[i].pc = "Rejected"
    /\ inst' = [inst EXCEPT ![i] = RejectOf(inst[i])]
    /\ UNCHANGED <<vs, verdict, loopVars, aq, fq, cc>>

TwoNext ==
    \/ \E i \in Instances, raw \in TwoRawInputs : InstPrompt(i, raw)
    \/ \E i \in Instances, c \in TwoAnswers : InstExtractReturn(i, c)
    \/ \E i \in Instances : InstExtractRaise(i)
    \/ \E i \in Instances : InstValidate(i)
    \/ \E i \in Instances : InstReject(i)

TwoLoopsSpec == IdleInit /\ [][TwoNext]_vars

-----------------------------------------------------------------------------
(* QueryProcessor.jsx (axios): typed or spoken query sent to /process_query *)

\* String.prototype.trim
Trim(s) == RStrip(LStrip(s))

\* s with its k-th element removed
RemoveAt(s, k) == SubSeq(s, 1, k - 1) \o SubSeq(s, k + 1, Len(s))

\* what the user can type into the textarea
TypedQueries == { <<>>, <<" ">>, <<"a">> }

\* event.results[0][0].transcript
Transcripts == { <<>>, <<"b">> }

\* res.data of /process_query; "" stands for a missing or empty field
RouterData == [ agent : {"", "SQL"}, response : {"", "text"} ]

AqUnknownAgent == "Unknown"

AqNoResponse == "No response received."

AqErrorText == "An error occurred while processing your query."

\* handleQuerySubmit(customQuery) up to its await, run in a render whose
\* query was closureQuery; an absent customQuery is the empty string
HandleQuerySubmit(st, customQuery, closureQuery) ==
    LET finalQuery == IF customQuery # <<>> THEN customQuery ELSE closureQuery IN
    IF Trim(finalQuery) = <<>>
    THEN st
    ELSE [st EXCEPT !.isProcessing = TRUE,
                    !.inflight = Append(@, finalQuery),
                    !.lastQuery = finalQuery]

\* onChange of the textarea
AqType(q) ==
    /\ ~(aq.isProcessing \/ aq.isListening)
    /\ aq' = [aq EXCEPT !.query = q, !.ev = "type"]
    /\ UNCHANGED <<vs, verdict, loopVars, inst, fq, cc>>

\* click on "Submit Query"
AqSubmitClick ==
    /\ ~aq.isProcessing
    /\ Len(aq.inflight) < MaxInFlight
    /\ aq' = HandleQuerySubmit([aq EXCEPT !.ev = "submit"], <<>>, aq.query)
    /\ UNCHANGED <<vs, verdict, loopVars, inst, fq, cc>>

\* click on "Voice Input" (handleVoiceInput, speech recognition available)
AqVoiceClick ==
    /\ ~aq.isListening
    /\ Len(aq.recognitions) < MaxRecognitions
    /\ aq' = [aq EXCEPT !.isListening = TRUE,
                        !.recognitions = Append(@, [q |-> aq.query, phase |-> "listening"]),
                        !.ev = "voice"]
    /\ UNCHANGED <<vs, verdict, loopVars, inst, fq, cc>>

\* recognition.onresult
AqOnResult(k, voiceQuery) ==
    /\ k \in 1..Len(aq.recognitions)
    /\ aq.recognitions[k].phase = "listening"
    /\ Len(aq.inflight) < MaxInFlight
    /\ aq' = HandleQuerySubmit(
                [aq EXCEPT !.query = voiceQuery, !.isListening = FALSE,
                           !.recognitions[k].phase = "closing", !.ev = "result"],
                voiceQuery, aq.recognitions[k].q)
    /\ UNCHANGED <<vs, verdict, loopVars, inst, fq, cc>>

\* recognition.onerror
AqOnError(k) ==
    /\ k \in 1..Len(aq.recognitions)
    /\ aq.recognitions[k].phase = "listening"
    /\ aq' = [aq EXCEPT !.isListening = FALSE,
                        !.recognitions[k].phase = "closing", !.ev = "error"]
    /\ UNCHANGED <<vs, verdict, loopVars, inst, fq, cc>>

\* recognition.onend
AqOnEnd(k) ==
    /\ k \in 1..Len(aq.recognitions)
    /\ aq' = [aq EXCEPT !.isListening = FALSE,
                        !.recognitions = RemoveAt(@, k), !.ev = "end"]
    /\ UNCHANGED <<vs, verdict, loopVars, inst, fq, cc>>

\* the await of axios.post returns res
AqRespond(k, data) ==
    /\ k \in 1..Len(aq.inflight)
    /\ aq' = [aq EXCEPT
                !.agent = IF data.agent # "" THEN data.agent ELSE AqUnknownAgent,
                !.response = IF data.response # "" THEN data.response ELSE AqNoResponse,
                !.isProcessing = FALSE,
                !.inflight = RemoveAt(@, k),
                !.shownFor = aq.inflight[k],
                !.ev = "respond"]
    /\ UNCHANGED <<vs, verdict, loopVars, inst, fq, cc>>

\* a buggy variant: the catch block posts the query again
AqFailRetrying(k) ==
    /\ k \in 1..Len(aq.inflight)
    /\ aq' = [aq EXCEPT !.response = AqErrorText,
                        !.inflight = Append(RemoveAt(@, k), aq.inflight[k]),
                        !.shownFor = aq.inflight[k],
                        !.ev = "fail"]
    /\ UNCHANGED <<vs, verdict, loopVars, inst, fq, cc>>

\* the await of axios.post throws (network error or non-2xx status)
AqFail(k) ==
    /\ k \in 1..Len(aq.inflight)
    /\ aq' = [aq EXCEPT !.response = AqErrorText,
                        !.isProcessing = FALSE,
                        !.inflight = RemoveAt(@, k),
                        !.shownFor = aq.inflight[k],
                        !.ev = "fail"]
    /\ UNCHANGED <<vs, verdict, loopVars, inst, fq, cc>>

AxiosNext ==
    \/ \E q \in TypedQueries : AqType(q)
    \/ AqSubmitClick
    \/ AqVoiceClick
    \/ \E k \in 1..MaxRecognitions, v \in Transcripts : AqOnResult(k, v)
    \/ \E k \in 1..MaxRecognitions : AqOnError(k)
    \/ \E k \in 1..MaxRecognitions : AqOnEnd(k)
    \/ \E k \in 1..MaxInFlight, data \in RouterData : AqRespond(k, data)
    \/ \E k \in 1..MaxInFlight : AqFail(k)

AxiosSpec == IdleInit /\ [][AxiosNext]_vars

\* C19: at most one /process_query request is in flight at any time, and once
\* nothing is in flight the response and agent displayed are those of the
\* most recently submitted query.
C19_OneInFlightShownIsLatest ==
    /\ Len(aq.inflight) <= 1
    /\ (aq.inflight = <<>> /\ aq.shownFor # None) => aq.shownFor = aq.lastQuery

-----------------------------------------------------------------------------
(* QueryProcessor (fetch): query sent to /process-query with the agent and
   status of the conversation *)

\* data of /process-query; "" stands for a missing or empty response text
FetchData == [ response : {"", "text"}, status : {"active", "resolved"}, agent : {"SQL", Null} ]

\* err.message: fetch rejected, res.ok false, res.json() rejected
FetchErrors == { "Failed to fetch", "Server error", "Unexpected end of JSON input" }

\* onChange of the input
FqType(q) ==
    /\ fq' = [fq EXCEPT !.query = q, !.ev = "type"]
    /\ UNCHANGED <<vs, verdict, loopVars, inst, aq, cc>>

\* submission of the form (the input is required, the button disabled while
\* loading): handleSubmit to its await
FqSubmit ==
    /\ ~fq.loading
    /\ fq.query # <<>>
    /\ Len(fq.inflight) < MaxInFlight
    /\ fq' = [fq EXCEPT !.loading = TRUE, !.error = Null,
                        !.inflight = Append(@, [query |-> fq.query,
                                                currentAgent |-> fq.currentAgent,
                                                queryStatus |-> fq.queryStatus]),
                        !.ev = "submit"]
    /\ UNCHANGED <<vs, verdict, loopVars, inst, aq, cc>>

\* a buggy variant: the reset for the next query is missing
FqRespondKeepingResolved(k, data) ==
    /\ k \in 1..Len(fq.inflight)
    /\ fq' = [fq EXCEPT
                !.response = data.response,
                !.queryStatus = data.status,
                !.currentAgent = data.agent,
                !.loading = FALSE,
                !.inflight = RemoveAt(@, k),
                !.lastOk = [agent |-> data.agent, status |-> data.status],
                !.ev = "respond"]
    /\ UNCHANGED <<vs, verdict, loopVars, inst, aq, cc>>

\* res.ok and res.json() gives data
FqRespond(k, data) ==
    /\ k \in 1..Len(fq.inflight)
    /\ fq' = [fq EXCEPT
                !.response = data.response,
                !.queryStatus = IF data.status = "resolved" THEN "inactive" ELSE data.status,
                !.currentAgent = IF data.status = "resolved" THEN Null ELSE data.agent,
                !.query = IF data.status = "resolved" THEN <<>> ELSE @,
                !.loading = FALSE,
                !.inflight = RemoveAt(@, k),
                !.lastOk = [agent |-> data.agent, status |-> data.status],
                !.ev = "respond"]
    /\ UNCHANGED <<vs, verdict, loopVars, inst, aq, cc>>

\* a buggy variant: the catch block also starts a new conversation
FqFailResetting(k, msg) ==
    /\ k \in 1..Len(fq.inflight)
    /\ fq' = [fq EXCEPT !.error = msg, !.loading = FALSE,
                        !.currentAgent = Null, !.queryStatus = "inactive",
                        !.inflight = RemoveAt(@, k), !.ev = "fail"]
    /\ UNCHANGED <<vs, verdict, loopVars, inst, aq, cc>>

\* fetch rejects, res.ok is false or res.json() rejects
FqFail(k, msg) ==
    /\ k \in 1..Len(fq.inflight)
    /\ fq' = [fq EXCEPT !.error = msg, !.loading = FALSE,
                        !.inflight = RemoveAt(@, k), !.ev = "fail"]
    /\ UNCHANGED <<vs, verdict, loopVars, inst, aq, cc>>

FetchNext ==
    \/ \E q \in TypedQueries : FqType(q)
    \/ FqSubmit
    \/ \E k \in 1..MaxInFlight, data \in FetchData : FqRespond(k, data)
    \/ \E k \in 1..MaxInFlight, msg \in FetchErrors : FqFail(k, msg)

FetchSpec == IdleInit /\ [][FetchNext]_vars

\* agent and status a request is to carry after the responses so far
Carried(ok) ==
    IF ok.status \in {"none", "resolved"}
    THEN [currentAgent |-> Null, queryStatus |-> "inactive"]
    ELSE [currentAgent |-> ok.agent, queryStatus |-> ok.status]

\* C20: every /process-query request carries the agent and status of the most
\* recent successful response, or null and 'inactive' when there has been none
\* or the last one was 'resolved'; a failed request leaves the agent, the
\* status, the query text and the response shown as they were.
C20_RequestCarriesLastSuccess ==
    /\ [][ Len(fq'.inflight) > Len(fq.inflight) =>
              LET req == fq'.inflight[Len(fq'.inflight)] IN
              /\ req.currentAgent = Carried(fq.lastOk).currentAgent
              /\ req.queryStatus = Carried(fq.lastOk).queryStatus ]_vars
    /\ [][ (fq'.ev = "fail" /\ fq' # fq) =>
              /\ fq'.currentAgent = fq.currentAgent
              /\ fq'.queryStatus = fq.queryStatus
              /\ fq'.query = fq.query
              /\ fq'.response = fq.response
              /\ fq'.lastOk = fq.lastOk ]_vars

\* a request sent after a failure that followed an 'active' response
C20_Witness ==
    /\ fq.inflight = << [query |-> <<"a">>, currentAgent |-> "SQL", queryStatus |-> "active"] >>
    /\ fq.lastOk = [agent |-> "SQL", status |-> "active"]
    /\ fq.response = "text"
    /\ fq.loading

-----------------------------------------------------------------------------
(* Layout and CallControls (AgentCard.jsx): record, upload to
   /api/process-audio, append to the transcript. The level meter (audioLevel,
   AudioContext, analyser, animation frame) and the message timestamps are
   left out. *)

\* result of /api/process-audio; "" stands for a missing or empty field
AudioResults ==
    [ session_id : {"", "s1", "s2"}, transcription : {"", "hi"},
      response : {"", "ok"}, agent_type : {"", "SQL"} ]

CcMicErrorText == "Could not access microphone. Please ensure you've granted permission."

CcUploadErrorText == "Error processing your message. Please try again."

CcDefaultAgent == "RAG"

\* the instance on screen, 0 when another page is shown
Current == IF cc.activePage = "assistant" THEN Len(cc.comps) ELSE 0

\* state setters of an instance that has been unmounted do nothing
SetState(comps, i, field, value) ==
    IF i = Current THEN [comps EXCEPT ![i][field] = value] ELSE comps

\* MediaRecorder.stop() on recorder r: inactive at once, dataavailable and
\* stop events queued
StopRecorder(recs, r, handler) ==
    [recs EXCEPT ![r] = [@ EXCEPT !.phase = "flushing", !.onstop = handler]]

IsRecording(recs, r) == r # 0 /\ recs[r].phase = "recording"

\* click on the record button while isRecording is false: toggleRecording to
\* the await of getUserMedia
CcClickStart ==
    /\ Current # 0
    /\ ~cc.comps[Current].isProcessing
    /\ ~cc.isRecording
    /\ cc.started < MaxRecordings
    /\ cc' = [cc EXCEPT !.isRecording = TRUE,
                        !.comps = SetState(@, Current, "error", Null),
                        !.gum = Append(@, [of |-> Current]),
                        !.started = @ + 1,
                        !.ev = "start", !.evOf = Current]
    /\ UNCHANGED <<vs, verdict, loopVars, inst, aq, fq>>

\* click on the record button while isRecording is true: the stop branch
CcClickStop ==
    /\ Current # 0
    /\ ~cc.comps[Current].isProcessing
    /\ cc.isRecording
    /\ LET r == cc.comps[Current].recorderRef IN
       cc' = [cc EXCEPT !.isRecording = FALSE,
                        !.recorders = IF IsRecording(cc.recorders, r)
                                      THEN StopRecorder(@, r, TRUE) ELSE @,
                        !.ev = "stop", !.evOf = Current]
    /\ UNCHANGED <<vs, verdict, loopVars, inst, aq, fq>>

\* getUserMedia resolves: the rest of the try block of the start branch
CcGumResolve(k) ==
    /\ k \in 1..Len(cc.gum)
    /\ LET i == cc.gum[k].of
           n == Len(cc.recorders) + 1 IN
       cc' = [cc EXCEPT !.comps[i].chunks = <<>>,
                        !.comps[i].recorderRef = n,
                        !.recorders = Append(@, [of |-> i, phase |-> "recording",
                                                 onstop |-> FALSE, data |-> FALSE]),
                        !.gum = RemoveAt(@, k),
                        !.ev = "granted", !.evOf = i]
    /\ UNCHANGED <<vs, verdict, loopVars, inst, aq, fq>>

\* getUserMedia rejects: the catch block of the start branch
CcGumReject(k) ==
    /\ k \in 1..Len(cc.gum)
    /\ LET i == cc.gum[k].of IN
       cc' = [cc EXCEPT !.comps = SetState(@, i, "error", CcMicErrorText),
                        !.isRecording = FALSE,
                        !.gum = RemoveAt(@, k),
                        !.ev = "denied", !.evOf = i]
    /\ UNCHANGED <<vs, verdict, loopVars, inst, aq, fq>>

\* ondataavailable of a stopped recorder
CcDataAvailable(r, hasData) ==
    /\ r \in 1..Len(cc.recorders)
    /\ cc.recorders[r].phase = "flushing"
    /\ LET i == cc.recorders[r].of IN
       cc' = [cc EXCEPT !.recorders[r].phase = "stopping",
                        !.recorders[r].data = hasData,
                        !.comps[i].chunks = IF hasData THEN Append(@, r) ELSE @,
                        !.ev = "data", !.evOf = i]
    /\ UNCHANGED <<vs, verdict, loopVars, inst, aq, fq>>

\* the stop event of a recorder: onstop to the await of fetch, when the
\* handler has been assigned
CcOnStop(r) ==
    /\ r \in 1..Len(cc.recorders)
    /\ cc.recorders[r].phase = "stopping"
    /\ LET i == cc.recorders[r].of IN
       IF cc.recorders[r].onstop
       THEN cc' = [cc EXCEPT !.recorders[r].phase = "done",
                             !.comps = SetState(@, i, "isProcessing", TRUE),
                             !.uploads = Append(@, [of |-> i, rec |-> r,
                                                    blob |-> cc.comps[i].chunks,
                                                    session_id |-> cc.comps[i].sessionIdRef]),
                             !.ev = "onstop", !.evOf = i]
       ELSE cc' = [cc EXCEPT !.recorders[r].phase = "done",
                             !.ev = "stopped", !.evOf = i]
    /\ UNCHANGED <<vs, verdict, loopVars, inst, aq, fq>>

\* the messages onstop hands to onNewMessage for a result
UserMessage(result) ==
    IF result.transcription # ""
    THEN << [text |-> result.transcription, sender |-> "user", agentType |-> ""] >>
    ELSE <<>>

AgentMessage(result) ==
    IF result.response # ""
    THEN << [text |-> result.response, sender |-> "agent",
             agentType |-> IF result.agent_type # "" THEN result.agent_type
                           ELSE CcDefaultAgent] >>
    ELSE <<>>

\* a buggy variant: handleNewMessage puts the newest message first
Prepended(transcript, result) ==
    AgentMessage(result) \o UserMessage(result) \o transcript

\* Layout.handleNewMessage, called for the user message and then for the
\* agent message: setTranscript(prev => [...prev, message])
Appended(transcript, result) ==
    transcript \o UserMessage(result) \o AgentMessage(result)

\* response.ok and response.json() gives result: the rest of onstop
CcUploadOk(k, result) ==
    /\ k \in 1..Len(cc.uploads)
    /\ LET i == cc.uploads[k].of
           c1 == IF result.session_id # ""
                 THEN SetState([cc.comps EXCEPT ![i].sessionIdRef = result.session_id],
                               i, "sessionId", result.session_id)
                 ELSE cc.comps
           c2 == IF result.transcription # ""
                 THEN SetState(c1, i, "transcription", result.transcription)
                 ELSE c1 IN
       cc' = [cc EXCEPT !.comps = SetState(c2, i, "isProcessing", FALSE),
                        !.transcript = Appended(@, result),
                        !.activeAgent = IF result.response # "" /\ result.agent_type # ""
                                        THEN result.agent_type ELSE @,
                        !.uploads = RemoveAt(@, k),
                        !.lastSid = IF result.session_id # "" THEN result.session_id ELSE @,
                        !.got = result,
                        !.ev = "uploadOk", !.evOf = i]
    /\ UNCHANGED <<vs, verdict, loopVars, inst, aq, fq>>

\* a buggy variant: the catch block also forgets the session
CcUploadFailForgetting(k) ==
    /\ k \in 1..Len(cc.uploads)
    /\ LET i == cc.uploads[k].of IN
       cc' = [cc EXCEPT !.comps = SetState(SetState(SetState(
                                      [@ EXCEPT ![i].sessionIdRef = Null],
                                      i, "sessionId", Null),
                                      i, "error", CcUploadErrorText),
                                      i, "isProcessing", FALSE),
                        !.uploads = RemoveAt(@, k),
                        !.ev = "uploadFail", !.evOf = i]
    /\ UNCHANGED <<vs, verdict, loopVars, inst, aq, fq>>

\* fetch rejects, response.ok is false or response.json() rejects: catch and
\* finally of onstop
CcUploadFail(k) ==
    /\ k \in 1..Len(cc.uploads)
    /\ LET i == cc.uploads[k].of IN
       cc' = [cc EXCEPT !.comps = SetState(SetState(@, i, "error", CcUploadErrorText),
                                           i, "isProcessing", FALSE),
                        !.uploads = RemoveAt(@, k),
                        !.ev = "uploadFail", !.evOf = i]
    /\ UNCHANGED <<vs, verdict, loopVars, inst, aq, fq>>

\* the pages of the sidebar other than the assistant
OtherPages == { "dashboard" }

\* an instance after unmounting: its React state is discarded, its refs live
\* on in the closures of its pending callbacks
Unmounted(c) ==
    [CallControlsStart EXCEPT !.sessionIdRef = c.sessionIdRef,
                              !.recorderRef = c.recorderRef,
                              !.chunks = c.chunks]

\* setActivePage away from the assistant: CallControls unmounts, its cleanup
\* effect runs
CcLeave(page) ==
    /\ Current # 0
    /\ LET r == cc.comps[Current].recorderRef IN
       cc' = [cc EXCEPT !.activePage = page,
                        !.comps[Current] = Unmounted(@),
                        !.recorders = IF IsRecording(cc.recorders, r)
                                      THEN StopRecorder(@, r, cc.recorders[r].onstop)
                                      ELSE @,
                        !.ev = "leave", !.evOf = Current]
    /\ UNCHANGED <<vs, verdict, loopVars, inst, aq, fq>>

\* setActivePage('assistant'): a new CallControls mounts
CcEnter ==
    /\ Current = 0
    /\ Len(cc.comps) < MaxMounts
    /\ cc' = [cc EXCEPT !.activePage = "assistant",
                        !.comps = Append(@, CallControlsStart),
                        !.ev = "enter", !.evOf = Len(cc.comps) + 1]
    /\ UNCHANGED <<vs, verdict, loopVars, inst, aq, fq>>

\* recording and uploading, with the backend answering from results
RecordingNext(results) ==
    \/ CcClickStart
    \/ CcClickStop
    \/ \E k \in 1..MaxRecordings : CcGumResolve(k)
    \/ \E k \in 1..MaxRecordings : CcGumReject(k)
    \/ \E r \in 1..MaxRecordings, hasData \in BOOLEAN : CcDataAvailable(r, hasData)
    \/ \E r \in 1..MaxRecordings : CcOnStop(r)
    \/ \E k \in 1..MaxRecordings, result \in results : CcUploadOk(k, result)
    \/ \E k \in 1..MaxRecordings : CcUploadFail(k)

\* the sidebar
NavigationNext ==
    \/ \E page \in OtherPages : CcLeave(page)
    \/ CcEnter

CallNext ==
    \/ RecordingNext(AudioResults)
    \/ NavigationNext

CallSpec == IdleInit /\ [][CallNext]_vars

\* recording and uploading on the assistant page, never left
RecordingSpec == IdleInit /\ [][RecordingNext(AudioResults)]_vars

\* results with every field present or every field missing
CoarseResults ==
    { r \in AudioResults :
        \/ r = [session_id |-> "s1", transcription |-> "hi", response |-> "ok", agent_type |-> "SQL"]
        \/ r = [session_id |-> "", transcription |-> "", response |-> "", agent_type |-> ""] }

CoarseCallNext ==
    \/ RecordingNext(CoarseResults)
    \/ NavigationNext

\* recording, uploading and navigating, the backend answering all or nothing
CoarseCallSpec == IdleInit /\ [][CoarseCallNext]_vars

SomeRecorderRecording == \E r \in 1..Len(cc.recorders) : cc.recorders[r].phase = "recording"

\* C18: once no getUserMedia call is pending, isRecording is true exactly when
\* a MediaRecorder is recording.
C18_FlagIffRecorderRecording ==
    cc.gum = <<>> => (cc.isRecording <=> SomeRecorderRecording)

-----------------------------------------------------------------------------
(* The client: the two QueryProcessors and the Layout are separate component
   trees that share no state, and every action above changes the record of
   its own component only. A run of the client is taken to be a run of one of
   them with the other two as they were first rendered. *)

ClientNext ==
    \/ (fq = FqStart /\ cc = CcStart /\ AxiosNext)
    \/ (aq = AqStart /\ cc = CcStart /\ FetchNext)
    \/ (aq = AqStart /\ fq = FqStart /\ CoarseCallNext)

ClientSpec == IdleInit /\ [][ClientNext]_vars

\* stopped recorders whose onstop handler has still to run
Armed(recs) == Cardinality({ r \in 1..Len(recs) : recs[r].onstop /\ recs[r].phase # "done" })

\* what a failed request leaves behind, per component
AqFailureHandled ==
    (aq' # aq /\ aq'.ev = "fail") =>
        /\ Len(aq'.inflight) = Len(aq.inflight) - 1
        /\ aq'.response = AqErrorText
        /\ ~aq'.isProcessing

FqFailureHandled ==
    (fq' # fq /\ fq'.ev = "fail") =>
        /\ Len(fq'.inflight) = Len(fq.inflight) - 1
        /\ fq'.error \in FetchErrors
        /\ ~fq'.loading

CcFailureHandled ==
    (cc' # cc /\ cc'.ev = "uploadFail") =>
        /\ Len(cc'.uploads) = Len(cc.uploads) - 1
        /\ Armed(cc'.recorders) = Armed(cc.recorders)
        /\ cc'.evOf = Current =>
              /\ cc'.comps[Current].error = CcUploadErrorText
              /\ ~cc'.comps[Current].isProcessing

\* requests start in the handlers of user actions only, one at a time
RequestsOnlyFromUserActions ==
    /\ Len(aq'.inflight) <= Len(aq.inflight) + 1
    /\ Len(aq'.inflight) > Len(aq.inflight) => aq'.ev \in {"submit", "result"}
    /\ Len(fq'.inflight) <= Len(fq.inflight) + 1
    /\ Len(fq'.inflight) > Len(fq.inflight) => fq'.ev = "submit"
    /\ Len(cc'.uploads) <= Len(cc.uploads) + 1
    /\ Len(cc'.uploads) > Len(cc.uploads) =>
          (cc'.ev = "onstop" /\ Armed(cc'.recorders) = Armed(cc.recorders) - 1)
    /\ Armed(cc'.recorders) <= Armed(cc.recorders) + 1
    /\ Armed(cc'.recorders) > Armed(cc.recorders) => cc'.ev = "stop"

\* C17 as stated: every submit, voice result and Stop click sends exactly one
\* request, and a failed request shows an error, clears the processing flag
\* and sends nothing.
C17_ExactlyOneRequestPerAction ==
    /\ [][ (aq' # aq /\ aq'.ev \in {"submit", "result"}) =>
              Len(aq'.inflight) = Len(aq.inflight) + 1 ]_vars
    /\ [][ (fq' # fq /\ fq'.ev = "submit") =>
              Len(fq'.inflight) = Len(fq.inflight) + 1 ]_vars
    /\ [][ (cc' # cc /\ cc'.ev = "stop") =>
              Armed(cc'.recorders) = Armed(cc.recorders) + 1 ]_vars
    /\ [][ AqFailureHandled /\ FqFailureHandled /\ CcFailureHandled ]_vars

\* C17, amended: requests are sent by the handlers of user actions only and at
\* most one per action: exactly one for a submit or voice result whose query
\* is not blank and for a Stop click that stops a running recorder, none
\* otherwise; a failed request shows an error, clears the processing flag and
\* sends nothing.
C17_AtMostOneRequestPerAction ==
    /\ [][ RequestsOnlyFromUserActions ]_vars
    /\ [][ (aq' # aq /\ aq'.ev = "submit" /\ Trim(aq.query) # <<>>) =>
              Len(aq'.inflight) = Len(aq.inflight) + 1 ]_vars
    /\ [][ (aq' # aq /\ aq'.ev = "result" /\ Trim(aq'.query) # <<>>) =>
              Len(aq'.inflight) = Len(aq.inflight) + 1 ]_vars
    /\ [][ (aq' # aq /\ aq'.ev = "submit" /\ Trim(aq.query) = <<>>) =>
              aq'.inflight = aq.inflight ]_vars
    /\ [][ (fq' # fq /\ fq'.ev = "submit") =>
              Len(fq'.inflight) = Len(fq.inflight) + 1 ]_vars
    /\ [][ (cc' # cc /\ cc'.ev = "stop") =>
              Armed(cc'.recorders) =
                  IF IsRecording(cc.recorders, cc.comps[Current].recorderRef)
                  THEN Armed(cc.recorders) + 1 ELSE Armed(cc.recorders) ]_vars
    /\ [][ AqFailureHandled /\ FqFailureHandled /\ CcFailureHandled ]_vars

\* a typed query was sent once, failed, and nothing is in flight
C17_Witness ==
    /\ aq.ev = "fail"
    /\ aq.lastQuery = <<"a">>
    /\ aq.shownFor = <<"a">>
    /\ aq.response = AqErrorText
    /\ ~aq.isProcessing
    /\ aq.inflight = <<>>

-----------------------------------------------------------------------------
(* Claims on the fetch QueryProcessor after a 'resolved' response *)

\* the "Currently processing with ... agent" banner is rendered
BannerShown == fq.queryStatus = "active"

\* C21: when a response has status 'resolved', once the handler has finished
\* the query text is empty, currentAgent is null and queryStatus is
\* 'inactive'; queryStatus is never left at 'resolved' and the banner is not
\* shown after such a response.
C21_ResolvedResets ==
    /\ [][ (fq' # fq /\ fq'.ev = "respond" /\ fq'.lastOk.status = "resolved") =>
              /\ fq'.query = <<>>
              /\ fq'.currentAgent = Null
              /\ fq'.queryStatus = "inactive"
              /\ ~BannerShown' ]_vars
    /\ [](fq.queryStatus # "resolved")
    /\ []((fq.lastOk.status = "resolved" /\ fq.inflight = <<>>) => ~BannerShown)

\* a response of the SQL agent with status 'resolved' has been handled
C21_Witness ==
    /\ fq.ev = "respond"
    /\ fq.lastOk = [agent |-> "SQL", status |-> "resolved"]
    /\ fq.response = "text"
    /\ fq.query = <<>>
    /\ fq.queryStatus = "inactive"

-----------------------------------------------------------------------------
(* Claims on the session id of CallControls *)

\* C22: once a response has returned a session_id, every later upload carries
\* the most recently returned one; before that, uploads carry none; a
\* response without session_id leaves the stored id unchanged.
C22_UploadsCarryLatestSession ==
    /\ [][ Len(cc'.uploads) > Len(cc.uploads) =>
              cc'.uploads[Len(cc'.uploads)].session_id = cc.lastSid ]_vars
    /\ [][ (cc' # cc /\ cc'.ev = "uploadOk" /\ cc'.got.session_id = "") =>
              \A i \in 1..Len(cc.comps) :
                  cc'.comps[i].sessionIdRef = cc.comps[i].sessionIdRef ]_vars

-----------------------------------------------------------------------------
(* Claims on the uploads of CallControls *)

\* C23: at most one upload is in flight at any time, no recorder is started
\* while isProcessing is true, and the blob of every upload holds exactly the
\* audio captured by the recording it was sent for.
C23_OneUploadOwnChunks ==
    /\ [](Len(cc.uploads) <= 1)
    /\ [][ Len(cc'.recorders) > Len(cc.recorders) =>
              ~cc.comps[cc'.evOf].isProcessing ]_vars
    /\ [](\A k \in 1..Len(cc.uploads) :
             cc.uploads[k].blob =
                 IF cc.recorders[cc.uploads[k].rec].data
                 THEN << cc.uploads[k].rec >> ELSE <<>>)

-----------------------------------------------------------------------------
(* Claims on the transcript and the active agent of Layout *)

\* the messages a step has added at the end of the transcript
Added == SubSeq(cc'.transcript, Len(cc.transcript) + 1, Len(cc'.transcript))

\* C24: the transcript only grows at its end, and only when a result is
\* handled; a result with both a transcription and a response adds the user
\* message and right after it the agent message, in the same step, so no
\* message of another recording comes between them.
C24_TranscriptAppendOnly ==
    /\ [][ /\ Len(cc'.transcript) >= Len(cc.transcript)
           /\ SubSeq(cc'.transcript, 1, Len(cc.transcript)) = cc.transcript
           /\ Len(Added) <= 2
           /\ Added # <<>> => cc'.ev = "uploadOk" ]_vars
    /\ [][ (cc' # cc /\ cc'.ev = "uploadOk"
               /\ cc'.got.transcription # "" /\ cc'.got.response # "") =>
              /\ Len(Added) = 2
              /\ Added[1].sender = "user" /\ Added[1].text = cc'.got.transcription
              /\ Added[2].sender = "agent" /\ Added[2].text = cc'.got.response ]_vars

\* two recordings have been processed; both results had a transcription and
\* a response, from different agents
C24_Witness ==
    /\ Len(cc.transcript) = 4
    /\ cc.transcript[1].sender = "user" /\ cc.transcript[2].sender = "agent"
    /\ cc.transcript[3].sender = "user" /\ cc.transcript[4].sender = "agent"
    /\ cc.transcript[2].agentType # cc.transcript[4].agentType
    /\ cc.uploads = <<>>
    /\ cc.ev = "uploadOk"


\* C25: whenever an agent message is appended to the transcript, activeAgent
\* equals that message's agentType, also when the result carries no
\* agent_type and the message is labelled 'RAG'.
C25_ActiveAgentMatchesMessage ==
    [][ (Added # <<>> /\ Added[Len(Added)].sender = "agent") =>
            cc'.activeAgent = Added[Len(Added)].agentType ]_vars


====
